---------------------------- MODULE Spec2Model ----------------------------
(***************************************************************************)
(* The autonomous multi-agent actor runtime of                             *)
(* snippets/multi-agent-systems/src/main.rs: three AutonomousAgent actors  *)
(* (Tom, Richard, Harry), each owning the receiving end of a bounded       *)
(* tokio mpsc channel (its inbox), a Vec of senders to its peers, and an   *)
(* RwLock-guarded AgentState; and the supervisor swarm_agent_example that  *)
(* wires the mesh, spawns the actors, seeds messages, sends Shutdown and   *)
(* awaits the join handles.                                                *)
(*                                                                         *)
(* One action is one run of code between two suspension points (.await     *)
(* that can actually suspend: a channel recv in select!, a channel send,   *)
(* a call of process_autonomous_task, a join handle).  Time is abstracted: *)
(* a tick of the 10 s interval and the supervisor's sleeps can fall        *)
(* anywhere, since the duration of a call to the LLM is unbounded.         *)
(*                                                                         *)
(* The supervisor's seed script is generalised: swarm_agent_example sends  *)
(* Task to tx1 and Trigger to tx2 (lines 245-255); the model lets the      *)
(* supervisor send up to MaxSeeds Task/Trigger messages to any actors,     *)
(* which contains that script.  The channel capacity (100 at lines         *)
(* 222-224) is scaled down: a run has any capacity of 1..MaxCapacity, so   *)
(* that a full inbox is reachable.                                         *)
(*                                                                         *)
(* responses_sent and task_errors are history variables, read by no        *)
(* action: the number of Response messages the channels accepted, and the  *)
(* number of "[id] Error processing task" lines each actor wrote to stderr.*)
(*                                                                         *)
(* The ConversationMemory of snippets/memory/src/main.rs is a second       *)
(* program, specified by MemSpec at the end of the module; its variables   *)
(* stay at MemoryUnused in the swarm's specification, and the swarm's at   *)
(* their initial values in MemSpec.                                        *)
(***************************************************************************)
EXTENDS Naturals, Sequences, FiniteSets, TLC

\* ------------------------------------------------------------------ bounds
\* the largest channel capacity explored: mpsc::channel(100) scaled down, the
\* capacity of a run being any of 1..MaxCapacity
MaxCapacity == 2
\* number of Task/Trigger messages the supervisor seeds before Shutdown
MaxSeeds == 2
\* the longest message list of a ConversationMemory explored
MaxMessages == 3
\* the largest max_messages given to with_max_messages
MaxMaxMessages == 2

\* --------------------------------------------------------------- constants
\* the ids given at AutonomousAgent::new, in creation order
AgentIds == <<"Tom", "Richard", "Harry">>
Agents == {AgentIds[i] : i \in 1..Len(AgentIds)}

\* payloads: the text of a seeded Task, of a seeded Trigger, and what the
\* LLM can answer
TaskTexts == {"analyze"}
TriggerTexts == {"status"}
Results == {"r1"}
\* summary_task of the periodic self-check
SummaryTask == "summarize"

\* AgentMessage, a closed enum of four variants; unused fields are ""
Task(text) == [type |-> "Task", from |-> "", text |-> text]
Response(from_id, content) == [type |-> "Response", from |-> from_id, text |-> content]
Trigger(text) == [type |-> "Trigger", from |-> "", text |-> text]
Shutdown == [type |-> "Shutdown", from |-> "", text |-> ""]
\* no message in hand
NoMsg == [type |-> "None", from |-> "", text |-> ""]
\* no call of process_autonomous_task outstanding
NoCall == <<>>

\* faulty variant: Tom is handed a clone of its own sender instead of Richard's
RegisterOrder_SelfLink ==
  << <<"Tom", "Tom">>, <<"Tom", "Harry">>,
     <<"Richard", "Tom">>, <<"Richard", "Harry">>,
     <<"Harry", "Tom">>, <<"Harry", "Richard">> >>

\* the order of the register_peer calls: <<actor, peer whose sender it gets>>
RegisterOrder ==
  << <<"Tom", "Richard">>, <<"Tom", "Harry">>,
     <<"Richard", "Tom">>, <<"Richard", "Harry">>,
     <<"Harry", "Tom">>, <<"Harry", "Richard">> >>

VARIABLES
  capacity,             \* the capacity every channel is built with
  sup_pc,               \* where swarm_agent_example stands
  sup_i,                \* index of its next step within the phase
  seeds_sent,           \* how many Task/Trigger messages it has sent
  peer_channels,        \* per actor: Vec of senders, as the ids of their inboxes
  inbox,                \* per actor: the content of its mpsc channel
  task_queue,           \* AgentState.task_queue
  conversation_history, \* AgentState.conversation_history
  state_guard,          \* per actor: how self.state is locked: "free", "read", "write"
  pc,                   \* per actor: where run() stands
  msg,                  \* per actor: the message handle_message is handling
  call,                 \* per actor: the outstanding process_autonomous_task call, <<id, task>>
  bcast_msg,            \* per actor: the message broadcast_to_peers is sending
  bcast_i,              \* per actor: index in peer_channels of the next send
  responses_sent,       \* how many Response messages the channels have accepted
  task_errors,          \* per actor: how many "Error processing task" lines it printed
  messages,             \* ConversationMemory.messages, each message as its variant
  max_messages,         \* ConversationMemory.max_messages
  summary,              \* ConversationMemory.summary, an Option
  mem_pc,               \* where compact() stands: "idle", or "request" at send().await
  compact_result        \* what the last compact() returned: "none", "Ok", "Err"

vars == <<capacity, sup_pc, sup_i, seeds_sent, peer_channels, inbox, task_queue,
          conversation_history, state_guard, pc, msg, call, bcast_msg, bcast_i,
          responses_sent, task_errors,
          messages, max_messages, summary, mem_pc, compact_result>>

sup_vars == <<capacity, sup_pc, sup_i, seeds_sent>>
agent_locals == <<msg, call, bcast_msg, bcast_i>>
agent_state == <<task_queue, conversation_history, state_guard>>
logs == <<responses_sent, task_errors>>
mem_vars == <<messages, max_messages, summary, mem_pc, compact_result>>
actor_vars == <<sup_vars, peer_channels, inbox, agent_state, pc, agent_locals, logs>>

\* ----------------------------------------------------------------- helpers

\* format!("Task: {} | Result: {}", task, result)
TaskEntry(task, result) == "Task: " \o task \o " | Result: " \o result

\* format!("From {}: {}", from_id, content)
ResponseEntry(from_id, content) == "From " \o from_id \o ": " \o content

\* the receiver of the inbox is dropped when run() returns
Closed(a) == pc[a] = "terminated"

\* faulty variant: an unbounded channel, a send never waits
Full_Never(a) == FALSE

\* a bounded channel has no free permit
Full(a) == Len(inbox[a]) >= capacity

\* faulty variant: the message jumps the queue
Enqueue_Front(q, m) == <<m>> \o q

\* mpsc::Sender::send enqueues at the tail
Enqueue(q, m) == Append(q, m)

\* peers.push(peer_channel)
register_peer(peers, peer_channel) == Append(peers, peer_channel)

\* faulty variant: the history is not looked at
needs_to_create_own_task_AnyHistory(a) == task_queue[a] = <<>>

\* task_queue.is_empty() && !conversation_history.is_empty()
needs_to_create_own_task(a) ==
  task_queue[a] = <<>> /\ conversation_history[a] # <<>>

\* faulty variant: run() has no Shutdown arm, the message falls through to
\* handle_message
IsShutdown_Never(m) == FALSE

\* the arm of run()'s match that breaks the loop
IsShutdown(m) == m.type = "Shutdown"

\* Option<String>
None == <<>>
Some(text) == <<text>>

\* the swarm example builds no ConversationMemory
MemoryUnused ==
  /\ messages = <<>>
  /\ max_messages = 0
  /\ summary = None
  /\ mem_pc = "idle"
  /\ compact_result = "none"

Init ==
  /\ capacity \in 1..MaxCapacity
  /\ sup_pc = "register"
  /\ sup_i = 1
  /\ seeds_sent = 0
  /\ peer_channels = [a \in Agents |-> <<>>]
  /\ inbox = [a \in Agents |-> <<>>]
  /\ task_queue = [a \in Agents |-> <<>>]
  /\ conversation_history = [a \in Agents |-> <<>>]
  /\ state_guard = [a \in Agents |-> "free"]
  /\ pc = [a \in Agents |-> "unspawned"]
  /\ msg = [a \in Agents |-> NoMsg]
  /\ call = [a \in Agents |-> NoCall]
  /\ bcast_msg = [a \in Agents |-> NoMsg]
  /\ bcast_i = [a \in Agents |-> 0]
  /\ responses_sent = 0
  /\ task_errors = [a \in Agents |-> 0]
  /\ MemoryUnused

\* -------------------------------------------------------------- supervisor

\* agentK.register_peer(txJ.clone()).await, in program order
SupRegister ==
  /\ sup_pc = "register"
  /\ LET a == RegisterOrder[sup_i][1]
         p == RegisterOrder[sup_i][2]
     IN  peer_channels' = [peer_channels EXCEPT ![a] = register_peer(@, p)]
  /\ IF sup_i < Len(RegisterOrder)
       THEN sup_i' = sup_i + 1 /\ sup_pc' = sup_pc
       ELSE sup_i' = 1 /\ sup_pc' = "spawn"
  /\ UNCHANGED <<mem_vars, capacity, seeds_sent, inbox, agent_state, pc, agent_locals, logs>>

\* tokio::spawn(agentK.run()), in program order
SupSpawn ==
  /\ sup_pc = "spawn"
  /\ pc' = [pc EXCEPT ![AgentIds[sup_i]] = "select"]
  /\ IF sup_i < Len(AgentIds)
       THEN sup_i' = sup_i + 1 /\ sup_pc' = sup_pc
       ELSE sup_i' = 1 /\ sup_pc' = "seed"
  /\ UNCHANGED <<mem_vars, capacity, seeds_sent, peer_channels, inbox, agent_state,
                 agent_locals, logs>>

\* a send that finds a free permit: the message is in the channel of `a`
Accept(a, m) ==
  /\ inbox' = [inbox EXCEPT ![a] = Enqueue(@, m)]
  /\ responses_sent' = IF m.type = "Response" THEN responses_sent + 1
                       ELSE responses_sent

\* tx.send(m).await? by the supervisor: Err (and return) when the receiver is
\* gone, suspended while the channel is full, else enqueued; then `next`
SupSend(a, m, next_pc, next_i) ==
  /\ Closed(a) \/ ~Full(a)
  /\ IF Closed(a)
       THEN /\ sup_pc' = "failed"
            /\ sup_i' = sup_i
            /\ UNCHANGED <<inbox, responses_sent>>
       ELSE /\ sup_pc' = next_pc
            /\ sup_i' = next_i
            /\ Accept(a, m)

\* a seed: Task(..) or Trigger(..) sent from outside the mesh
SupSeed(a, m) ==
  /\ sup_pc = "seed"
  /\ seeds_sent < MaxSeeds
  /\ SupSend(a, m, "seed", 1)
  /\ seeds_sent' = seeds_sent + 1
  /\ UNCHANGED <<mem_vars, capacity, peer_channels, agent_state, pc, agent_locals, task_errors>>

\* txK.send(AgentMessage::Shutdown).await?, in program order
SupShutdown ==
  /\ sup_pc \in {"seed", "shutdown"}
  /\ IF sup_i < Len(AgentIds)
       THEN SupSend(AgentIds[sup_i], Shutdown, "shutdown", sup_i + 1)
       ELSE SupSend(AgentIds[sup_i], Shutdown, "await", 1)
  /\ UNCHANGED <<mem_vars, capacity, seeds_sent, peer_channels, agent_state, pc, agent_locals,
                 task_errors>>

\* handleK.await?, in program order; the function returns Ok after the last
SupAwait ==
  /\ sup_pc = "await"
  /\ pc[AgentIds[sup_i]] = "terminated"
  /\ IF sup_i < Len(AgentIds)
       THEN sup_i' = sup_i + 1 /\ sup_pc' = sup_pc
       ELSE sup_i' = 1 /\ sup_pc' = "done"
  /\ UNCHANGED <<mem_vars, capacity, seeds_sent, peer_channels, inbox, agent_state, pc,
                 agent_locals, logs>>

\* ------------------------------------------------------------------ actors

\* the Task arm up to the call: process_autonomous_task(&task).await
OnTask(a, m) ==
  /\ call' = [call EXCEPT ![a] = <<a, m.text>>]
  /\ msg' = [msg EXCEPT ![a] = m]
  /\ pc' = [pc EXCEPT ![a] = "process_task"]
  /\ UNCHANGED <<mem_vars, agent_state, bcast_msg, bcast_i>>

\* faulty variant: a received Response is recorded and sent on to the peers
OnResponse_Rebroadcast(a, m) ==
  /\ conversation_history' =
       [conversation_history EXCEPT ![a] = Append(@, ResponseEntry(m.from, m.text))]
  /\ bcast_msg' = [bcast_msg EXCEPT ![a] = m]
  /\ bcast_i' = [bcast_i EXCEPT ![a] = 1]
  /\ pc' = [pc EXCEPT ![a] = "broadcast"]
  /\ state_guard' = [state_guard EXCEPT ![a] = "write"]
  /\ UNCHANGED <<mem_vars, task_queue, msg, call>>

\* the Response arm: push under the write guard, which the arm's end drops
OnResponse(a, m) ==
  /\ conversation_history' =
       [conversation_history EXCEPT ![a] = Append(@, ResponseEntry(m.from, m.text))]
  /\ UNCHANGED <<mem_vars, task_queue, state_guard, pc, agent_locals>>

\* faulty variant: a Trigger is handled by the Task arm
OnTrigger_AsTask(a, m) == OnTask(a, m)

\* the Trigger arm up to the call: process_autonomous_task(&trigger_msg).await
OnTrigger(a, m) ==
  /\ call' = [call EXCEPT ![a] = <<a, m.text>>]
  /\ msg' = [msg EXCEPT ![a] = m]
  /\ pc' = [pc EXCEPT ![a] = "process_trigger"]
  /\ UNCHANGED <<mem_vars, agent_state, bcast_msg, bcast_i>>

\* handle_message up to its first suspension point; the last arm prints only
handle_message(a, m) ==
  CASE m.type = "Task" -> OnTask(a, m)
    [] m.type = "Response" -> OnResponse(a, m)
    [] m.type = "Trigger" -> OnTrigger(a, m)
    [] OTHER -> UNCHANGED <<agent_state, pc, agent_locals>>

\* the Shutdown arm of run(): break; self, and its receiver, are dropped and
\* what the channel still holds is never received
OnShutdown(a) ==
  /\ pc' = [pc EXCEPT ![a] = "terminated"]
  /\ UNCHANGED <<mem_vars, agent_state, agent_locals>>

\* faulty variant: a Shutdown at the head of the inbox is taken while the
\* call for a Task is still outstanding, and cuts the handling short
Recv_Interrupting(a) ==
  /\ inbox[a] # <<>>
  /\ \/ pc[a] = "select"
     \/ pc[a] = "process_task" /\ Head(inbox[a]) = Shutdown
  /\ LET m == Head(inbox[a])
     IN  /\ inbox' = [inbox EXCEPT ![a] = Tail(@)]
         /\ IF IsShutdown(m) THEN OnShutdown(a) ELSE handle_message(a, m)
  /\ UNCHANGED <<mem_vars, sup_vars, peer_channels, logs>>

\* select! takes the recv branch: Some(msg) = self.inbox.recv().  With no
\* message the branch is not taken, also when recv() returns None because
\* every sender is gone: the pattern fails and select! waits for the tick.
Recv(a) ==
  /\ pc[a] = "select"
  /\ inbox[a] # <<>>
  /\ LET m == Head(inbox[a])
     IN  /\ inbox' = [inbox EXCEPT ![a] = Tail(@)]
         /\ IF IsShutdown(m) THEN OnShutdown(a) ELSE handle_message(a, m)
  /\ UNCHANGED <<mem_vars, sup_vars, peer_channels, logs>>

\* broadcast_to_peers standing at peer number i: past the last peer it
\* returns, the arm ends (the write guard is dropped) and run() is back at
\* select!
BroadcastAt(a, i) ==
  IF i <= Len(peer_channels[a])
    THEN /\ bcast_i' = [bcast_i EXCEPT ![a] = i]
         /\ pc' = [pc EXCEPT ![a] = "broadcast"]
         /\ state_guard' = [state_guard EXCEPT ![a] = "write"]
         /\ UNCHANGED <<msg, bcast_msg>>
    ELSE /\ bcast_i' = [bcast_i EXCEPT ![a] = 0]
         /\ pc' = [pc EXCEPT ![a] = "select"]
         /\ state_guard' = [state_guard EXCEPT ![a] = "free"]
         /\ msg' = [msg EXCEPT ![a] = NoMsg]
         /\ bcast_msg' = [bcast_msg EXCEPT ![a] = NoMsg]

\* faulty variant: the result is broadcast but the entry is not pushed
TaskOk_Unrecorded(a, result) ==
  /\ pc[a] = "process_task"
  /\ call' = [call EXCEPT ![a] = NoCall]
  /\ bcast_msg' = [bcast_msg EXCEPT ![a] = Response(a, result)]
  /\ bcast_i' = [bcast_i EXCEPT ![a] = 1]
  /\ pc' = [pc EXCEPT ![a] = "broadcast"]
  /\ state_guard' = [state_guard EXCEPT ![a] = "write"]
  /\ UNCHANGED <<mem_vars, sup_vars, peer_channels, inbox, task_queue, conversation_history,
                 msg, logs>>

\* process_autonomous_task returns Ok(result) for a Task: the entry is
\* pushed under the write guard, then broadcast_to_peers(Response(id, result))
\* starts with the guard still held
TaskOk(a, result) ==
  /\ pc[a] = "process_task"
  /\ call' = [call EXCEPT ![a] = NoCall]
  /\ conversation_history' =
       [conversation_history EXCEPT ![a] = Append(@, TaskEntry(msg[a].text, result))]
  /\ IF Len(peer_channels[a]) > 0
       THEN /\ bcast_msg' = [bcast_msg EXCEPT ![a] = Response(a, result)]
            /\ bcast_i' = [bcast_i EXCEPT ![a] = 1]
            /\ pc' = [pc EXCEPT ![a] = "broadcast"]
            /\ state_guard' = [state_guard EXCEPT ![a] = "write"]
            /\ msg' = msg
       ELSE BroadcastAt(a, 1)
  /\ UNCHANGED <<mem_vars, sup_vars, peer_channels, inbox, task_queue, logs>>

\* faulty variant: the error is recorded in the history
TaskErr_Recorded(a) ==
  /\ pc[a] = "process_task"
  /\ call' = [call EXCEPT ![a] = NoCall]
  /\ msg' = [msg EXCEPT ![a] = NoMsg]
  /\ pc' = [pc EXCEPT ![a] = "select"]
  /\ task_errors' = [task_errors EXCEPT ![a] = @ + 1]
  /\ conversation_history' =
       [conversation_history EXCEPT ![a] = Append(@, TaskEntry(msg[a].text, "error"))]
  /\ UNCHANGED <<mem_vars, sup_vars, peer_channels, inbox, task_queue, state_guard, bcast_msg,
                 bcast_i, responses_sent>>

\* faulty variant: an error of the call ends the actor's loop
TaskErr_Fatal(a) ==
  /\ pc[a] = "process_task"
  /\ call' = [call EXCEPT ![a] = NoCall]
  /\ msg' = [msg EXCEPT ![a] = NoMsg]
  /\ pc' = [pc EXCEPT ![a] = "terminated"]
  /\ task_errors' = [task_errors EXCEPT ![a] = @ + 1]
  /\ UNCHANGED <<mem_vars, sup_vars, peer_channels, inbox, agent_state, bcast_msg, bcast_i,
                 responses_sent>>

\* process_autonomous_task returns Err(e) for a Task: eprintln! only
TaskErr(a) ==
  /\ pc[a] = "process_task"
  /\ call' = [call EXCEPT ![a] = NoCall]
  /\ msg' = [msg EXCEPT ![a] = NoMsg]
  /\ pc' = [pc EXCEPT ![a] = "select"]
  /\ task_errors' = [task_errors EXCEPT ![a] = @ + 1]
  /\ UNCHANGED <<mem_vars, sup_vars, peer_channels, inbox, agent_state, bcast_msg, bcast_i,
                 responses_sent>>

\* let _ = peer.send(message.clone()).await for the next peer: Err, ignored,
\* when the peer's receiver is gone; suspended while its channel is full
BroadcastSend(a) ==
  /\ pc[a] = "broadcast"
  /\ LET p == peer_channels[a][bcast_i[a]]
     IN  /\ Closed(p) \/ ~Full(p)
         /\ IF Closed(p)
              THEN UNCHANGED <<inbox, responses_sent>>
              ELSE Accept(p, bcast_msg[a])
  /\ BroadcastAt(a, bcast_i[a] + 1)
  /\ UNCHANGED <<mem_vars, sup_vars, peer_channels, task_queue, conversation_history, call,
                 task_errors>>

\* process_autonomous_task returns for a Trigger, Ok or Err: let _ = ...
TriggerReturn(a, ok) ==
  /\ pc[a] = "process_trigger"
  /\ call' = [call EXCEPT ![a] = NoCall]
  /\ msg' = [msg EXCEPT ![a] = NoMsg]
  /\ pc' = [pc EXCEPT ![a] = "select"]
  /\ UNCHANGED <<mem_vars, sup_vars, peer_channels, inbox, agent_state, bcast_msg, bcast_i, logs>>

\* select! takes the tick branch: the guarded read, then the call if it is due
Tick(a) ==
  /\ pc[a] = "select"
  /\ IF needs_to_create_own_task(a)
       THEN /\ call' = [call EXCEPT ![a] = <<a, SummaryTask>>]
            /\ pc' = [pc EXCEPT ![a] = "process_summary"]
       ELSE UNCHANGED <<call, pc>>
  /\ UNCHANGED <<mem_vars, sup_vars, peer_channels, inbox, agent_state, msg, bcast_msg,
                 bcast_i, logs>>

\* process_autonomous_task returns for the self-check, Ok or Err: printed only
SummaryReturn(a, ok) ==
  /\ pc[a] = "process_summary"
  /\ call' = [call EXCEPT ![a] = NoCall]
  /\ pc' = [pc EXCEPT ![a] = "select"]
  /\ UNCHANGED <<mem_vars, sup_vars, peer_channels, inbox, agent_state, msg, bcast_msg,
                 bcast_i, logs>>

\* what the supervisor may seed
Seeds == {Task(t) : t \in TaskTexts} \cup {Trigger(t) : t \in TriggerTexts}

Next ==
  \/ SupRegister
  \/ SupSpawn
  \/ \E a \in Agents, m \in Seeds : SupSeed(a, m)
  \/ SupShutdown
  \/ SupAwait
  \/ \E a \in Agents : Recv(a)
  \/ \E a \in Agents, r \in Results : TaskOk(a, r)
  \/ \E a \in Agents : TaskErr(a)
  \/ \E a \in Agents : BroadcastSend(a)
  \/ \E a \in Agents, ok \in BOOLEAN : TriggerReturn(a, ok)
  \/ \E a \in Agents : Tick(a)
  \/ \E a \in Agents, ok \in BOOLEAN : SummaryReturn(a, ok)

Spec == Init /\ [][Next]_vars

\* the return of the call outstanding at `a`, whatever it is for
CallReturns(a) ==
  \/ \E r \in Results : TaskOk(a, r)
  \/ TaskErr(a)
  \/ \E ok \in BOOLEAN : TriggerReturn(a, ok)
  \/ \E ok \in BOOLEAN : SummaryReturn(a, ok)

\* What the scheduling gives: the supervisor's task runs on (its sleeps
\* end); every call of process_autonomous_task returns; select! polls its
\* branches in random order, so a message that is there is taken in the
\* end even if ticks keep coming; and a send that waits for a permit gets
\* one in the end whenever permits keep being released (tokio's semaphore
\* serves its waiters in order).
Fairness ==
  /\ WF_vars(SupRegister)
  /\ WF_vars(SupSpawn)
  /\ SF_vars(SupShutdown)
  /\ WF_vars(SupAwait)
  /\ \A a \in Agents :
       /\ WF_vars(CallReturns(a))
       /\ SF_vars(Recv(a))
       /\ SF_vars(BroadcastSend(a))

FairSpec == Spec /\ Fairness

\* ------------------------------------------------------- shared vocabulary

\* the actor's loop is running: spawned and not yet out of run()
Running(a) == pc[a] \notin {"unspawned", "terminated"}

\* the elements of a sequence
Range(q) == {q[i] : i \in 1..Len(q)}

\* this step takes the head off the inbox of `a`
Dequeues(a) == Len(inbox'[a]) < Len(inbox[a])

\* this step hands message m to the dispatch of `a`: what each arm of run()
\* and handle_message does first
Dispatches(a, m) ==
  CASE m.type = "Shutdown" -> pc'[a] = "terminated"
    [] m.type = "Task" ->
         msg'[a] = m /\ pc'[a] = "process_task" /\ call'[a] = <<a, m.text>>
    [] m.type = "Trigger" ->
         msg'[a] = m /\ pc'[a] = "process_trigger" /\ call'[a] = <<a, m.text>>
    [] m.type = "Response" ->
         /\ Len(conversation_history'[a]) = Len(conversation_history[a]) + 1
         /\ pc'[a] = "select"
    [] OTHER -> FALSE

\* nothing of actor `a` changes in this step
ActorFrozen(a) ==
  /\ pc'[a] = pc[a]
  /\ inbox'[a] = inbox[a]
  /\ conversation_history'[a] = conversation_history[a]
  /\ task_queue'[a] = task_queue[a]
  /\ state_guard'[a] = state_guard[a]
  /\ msg'[a] = msg[a]
  /\ call'[a] = call[a]
  /\ bcast_msg'[a] = bcast_msg[a]
  /\ bcast_i'[a] = bcast_i[a]

\* ---------------------------------------------------------------- claim C2

\* C2: Shutdown is terminal.  The step in which an actor's loop dequeues
\* Shutdown takes it to Terminated, and a Terminated actor stays so for
\* good: from then on nothing of it changes, so no message of its inbox
\* (those queued behind the Shutdown included) is dispatched, no tick work
\* runs and its history is never touched again.
C2_ShutdownIsTerminal ==
  [][\A a \in Agents :
       /\ (Dequeues(a) /\ Head(inbox[a]) = Shutdown) => pc'[a] = "terminated"
       /\ pc[a] = "terminated" => ActorFrozen(a)]_vars

\* an actor has terminated with a message left behind the Shutdown
C2_Witness ==
  \E a \in Agents : pc[a] = "terminated" /\ inbox[a] # <<>>

\* ---------------------------------------------------------------- claim C4

\* C4: FIFO.  An inbox changes only by a send appending one message at its
\* tail or by its owner taking the message at its head, and the message
\* taken is the one dispatched in that very step; so messages are
\* dispatched in the order their sends completed, each at most once.  In
\* particular Shutdown, the supervisor's last message to an actor, is
\* dispatched after every seed the supervisor sent it: an actor never
\* terminates with a Task or Trigger still queued.
C4_Fifo ==
  /\ [][\A a \in Agents :
          \/ inbox'[a] = inbox[a]
          \/ /\ inbox[a] # <<>>
             /\ inbox'[a] = Tail(inbox[a])
             /\ Dispatches(a, Head(inbox[a]))
          \/ /\ Len(inbox'[a]) = Len(inbox[a]) + 1
             /\ SubSeq(inbox'[a], 1, Len(inbox[a])) = inbox[a]]_vars
  /\ [](\A a \in Agents :
          pc[a] = "terminated" =>
            \A i \in 1..Len(inbox[a]) : inbox[a][i].type = "Response")

\* two messages of one sender, the supervisor, wait in an inbox in the order
\* they were sent
C4_Witness ==
  \E a \in Agents :
    /\ Len(inbox[a]) >= 2
    /\ inbox[a][1].type \in {"Task", "Trigger"}
    /\ inbox[a][2] = Shutdown

\* ---------------------------------------------------------------- claim C9

\* C9: the only way into Terminated is the step that dequeues Shutdown at
\* the select!: a spawned actor leaves Running in no other step, whatever
\* calls failed, whatever sends failed, ticks or not, inbox empty or not.
C9_OnlyShutdownTerminates ==
  [][\A a \in Agents :
       (pc'[a] = "terminated" /\ pc[a] # "terminated") =>
          /\ pc[a] = "select"
          /\ inbox[a] # <<>>
          /\ Head(inbox[a]) = Shutdown
          /\ inbox'[a] = Tail(inbox[a])]_vars

\* a call has failed and a peer has terminated (sends to it fail), yet an
\* actor that was sent no Shutdown is Running with an empty inbox
C9_Witness ==
  \E a, b \in Agents :
       /\ task_errors[a] >= 1
       /\ pc[a] = "select" /\ inbox[a] = <<>>
       /\ conversation_history[a] # <<>>
       /\ pc[b] = "terminated"

\* --------------------------------------------------------------- claim C10

\* the peer whose channel the broadcast of `a` is sending to
BroadcastTarget(a) == peer_channels[a][bcast_i[a]]

\* C10: backpressure.  No inbox ever holds more than the capacity; a
\* broadcasting actor whose target's inbox is full, the target Running, does
\* not move (it is suspended: nothing is dropped or overwritten), and when a
\* broadcast send to a Running target completes, the message is at the tail
\* of the target's inbox, once.  The same holds of the supervisor's Shutdown.
C10_Backpressure ==
  /\ [](\A a \in Agents : Len(inbox[a]) <= capacity)
  /\ [][\A a \in Agents :
          pc[a] = "broadcast" =>
            LET p == BroadcastTarget(a)
            IN  /\ (Len(inbox[p]) >= capacity /\ pc[p] # "terminated") =>
                     (pc'[a] = pc[a] /\ bcast_i'[a] = bcast_i[a]
                        /\ bcast_msg'[a] = bcast_msg[a])
                /\ ((pc'[a] # pc[a] \/ bcast_i'[a] # bcast_i[a])
                      /\ pc[p] # "terminated") =>
                     inbox'[p] = Append(inbox[p], bcast_msg[a])]_vars
  /\ [][(sup_pc = "shutdown" /\ Len(inbox[AgentIds[sup_i]]) >= capacity
           /\ pc[AgentIds[sup_i]] # "terminated") =>
          (sup_pc' = sup_pc /\ sup_i' = sup_i)]_vars

\* a broadcasting actor is suspended in a send to a full inbox whose owner
\* is Running
C10_Witness ==
  \E a \in Agents :
    /\ pc[a] = "broadcast"
    /\ Len(inbox[BroadcastTarget(a)]) = capacity
    /\ Running(BroadcastTarget(a))

\* ---------------------------------------------------------------- claim C5

\* the step in which a call of `a` returns leaves no trace: no history of
\* any actor and no inbox changes, nothing is sent, and `a` is back at the
\* select!, no guard held, ready for its next message or tick
CleanReturn(a) ==
  /\ conversation_history' = conversation_history
  /\ task_queue' = task_queue
  /\ inbox' = inbox
  /\ responses_sent' = responses_sent
  /\ peer_channels' = peer_channels
  /\ pc'[a] = "select"
  /\ call'[a] = NoCall
  /\ state_guard'[a] = "free"
  /\ bcast_msg'[a] = NoMsg

\* C5: a failure of the TaskProcessor leaves no trace.  The step that
\* reports "Error processing task" for an actor is the return of its Task
\* call and changes no history and no inbox, sends nothing and leaves the
\* actor at the select!; and the return of a Trigger's call or of a
\* self-check's call, failed or not, does the same.
C5_FailureLeavesNoTrace ==
  [][\A a \in Agents :
       /\ task_errors'[a] # task_errors[a] =>
            pc[a] = "process_task" /\ CleanReturn(a)
       /\ (pc[a] \in {"process_trigger", "process_summary"} /\ pc'[a] # pc[a]) =>
            CleanReturn(a)]_vars

\* after a failed Task the actor, its history still empty, has dispatched
\* its next Task
C5_Witness ==
  \E a \in Agents :
    /\ task_errors[a] >= 1
    /\ conversation_history[a] = <<>>
    /\ pc[a] = "process_task"

\* ---------------------------------------------------------------- claim C6

\* the guarded read of the tick
SelfCheckDue(a) == task_queue[a] = <<>> /\ conversation_history[a] # <<>>

\* C6: the self-check guard.  A tick issues the self-summarization call if
\* and only if task_queue is empty and conversation_history is not, at the
\* instant of the read; the call is outstanding only at an actor whose
\* history is non-empty; and the self-check, from the tick to the return of
\* its call, appends nothing to any history and sends nothing.
C6_SelfCheckGuard ==
  /\ [](\A a \in Agents :
          pc[a] = "process_summary" =>
            call[a] = <<a, SummaryTask>> /\ SelfCheckDue(a))
  /\ [][\A a \in Agents :
          /\ Tick(a) => (pc'[a] = "process_summary" <=> SelfCheckDue(a))
          /\ (pc'[a] = "process_summary" /\ pc[a] # "process_summary") =>
               /\ pc[a] = "select"
               /\ SelfCheckDue(a)
               /\ conversation_history' = conversation_history
               /\ inbox' = inbox
               /\ responses_sent' = responses_sent
          /\ (pc[a] = "process_summary" /\ pc'[a] # pc[a]) => CleanReturn(a)]_vars

\* a self-summarization call is outstanding
C6_Witness ==
  \E a \in Agents :
    pc[a] = "process_summary" /\ Len(conversation_history[a]) >= 1

\* ---------------------------------------------------------------- claim C7

\* the step changes nothing a Trigger must leave alone: the actor's history,
\* the peer sets, every other actor's inbox, and nothing is sent
TriggerFrame(a) ==
  /\ conversation_history'[a] = conversation_history[a]
  /\ peer_channels' = peer_channels
  /\ \A b \in Agents \ {a} : inbox'[b] = inbox[b]
  /\ responses_sent' = responses_sent

\* C7: dispatching Trigger(text) issues one TaskProcessor call with (own
\* id, text); until it returns that call stays the one outstanding, and its
\* return, Ok or Err, takes the actor back to the select!; neither step
\* touches the actor's history, the peer sets or a peer's inbox.
C7_TriggerFrame ==
  /\ [](\A a \in Agents :
          pc[a] = "process_trigger" =>
            msg[a].type = "Trigger" /\ call[a] = <<a, msg[a].text>>)
  /\ [][\A a \in Agents :
          /\ (Dequeues(a) /\ Head(inbox[a]).type = "Trigger") =>
               /\ pc'[a] = "process_trigger"
               /\ call'[a] = <<a, Head(inbox[a]).text>>
               /\ TriggerFrame(a)
          /\ pc[a] = "process_trigger" =>
               \/ pc'[a] = pc[a] /\ call'[a] = call[a]
                    /\ conversation_history'[a] = conversation_history[a]
               \/ pc'[a] = "select" /\ call'[a] = NoCall /\ TriggerFrame(a)]_vars

\* a Trigger's call is outstanding at an actor
C7_Witness ==
  \E a \in Agents, t \in TriggerTexts :
    pc[a] = "process_trigger" /\ call[a] = <<a, t>> /\ msg[a] = Trigger(t)

\* ---------------------------------------------------------------- claim C8

\* the entries a successful Task leaves in a history
TaskEntries ==
  {"Task: " \o t \o " | Result: " \o r : t \in TaskTexts, r \in Results}

\* how many Tasks have been processed successfully, over all actors
TasksSucceeded ==
  Cardinality(UNION {{<<a, i>> : i \in {j \in 1..Len(conversation_history[a]) :
                                          conversation_history[a][j] \in TaskEntries}} :
                     a \in Agents})

\* C8: one-hop propagation.  Dispatching Response(from, text) appends the
\* one entry "From <from>: <text>" to the receiver's history, sends nothing
\* and leaves the actor at the select!; and the Response messages sent in a
\* run number at most N-1 per successfully processed Task.
C8_OneHop ==
  /\ [](responses_sent <= (Cardinality(Agents) - 1) * TasksSucceeded)
  /\ [][\A a \in Agents :
          (Dequeues(a) /\ Head(inbox[a]).type = "Response") =>
            LET m == Head(inbox[a])
            IN  /\ conversation_history'[a] =
                     Append(conversation_history[a],
                            "From " \o m.from \o ": " \o m.text)
                /\ \A b \in Agents \ {a} :
                     /\ inbox'[b] = inbox[b]
                     /\ conversation_history'[b] = conversation_history[b]
                /\ responses_sent' = responses_sent
                /\ pc'[a] = "select"]_vars

\* an actor has recorded a peer's Response and is back at the select!
C8_Witness ==
  \E a, b \in Agents, r \in Results :
    /\ a # b
    /\ ("From " \o b \o ": " \o r) \in Range(conversation_history[a])
    /\ pc[a] = "select"
    /\ responses_sent >= 1

\* ---------------------------------------------------------------- claim C1

\* the call for a Task of `a` has just succeeded with `result`: the entry is
\* pushed and the broadcast of Response(a, result) stands at its first peer
TaskSucceeded(a, result) ==
  /\ pc[a] = "broadcast"
  /\ bcast_i[a] = 1
  /\ bcast_msg[a] = Response(a, result)

\* C1: eventual delivery in the mesh.  With every actor Running when the
\* Task call of actor a succeeds with result r, every other actor b
\* eventually has "From a: r" in its history, as long as b is Running (an
\* actor that has meanwhile dequeued Shutdown is not asked for the entry).
C1_EventualDelivery ==
  \A a \in Agents, r \in Results :
    \A b \in Agents \ {a} :
      (TaskSucceeded(a, r) /\ \A c \in Agents : Running(c))
        ~> (pc[b] = "terminated"
              \/ ("From " \o a \o ": " \o r) \in Range(conversation_history[b]))

\* ---------------------------------------------------------------- claim C3

\* C3: shutdownAll completes.  Once the supervisor has sent its first
\* Shutdown, it eventually has sent them all, every actor has terminated
\* and the wait on the three join handles is over.
C3_ShutdownCompletes ==
  (sup_pc = "shutdown") ~> (sup_pc = "done" /\ \A a \in Agents : pc[a] = "terminated")

\* --------------------------------------------------------------- claim C11

\* some actor's loop has started
Started == \E a \in Agents : pc[a] # "unspawned"

\* the entries a Response of `a` would leave in a history
SelfEntries(a) == {"From " \o a \o ": " \o r : r \in Results}

\* C11: the mesh topology.  Once any actor's loop has started, every actor
\* holds exactly N-1 peer links, one to each other actor's inbox and none
\* to its own, and no peer set changes any more; no inbox ever holds a
\* Response carrying its owner's id, no actor dispatches one, and no
\* history holds a "From <own id>" entry.
C11_MeshTopology ==
  /\ [](Started =>
          \A a \in Agents :
            /\ Len(peer_channels[a]) = Cardinality(Agents) - 1
            /\ Range(peer_channels[a]) = Agents \ {a})
  /\ [][Started => peer_channels' = peer_channels]_vars
  /\ [](\A a \in Agents :
          /\ \A i \in 1..Len(inbox[a]) :
               inbox[a][i].type = "Response" => inbox[a][i].from # a
          /\ Range(conversation_history[a]) \cap SelfEntries(a) = {})
  /\ [][\A a \in Agents :
          (Dequeues(a) /\ Head(inbox[a]).type = "Response") =>
             Head(inbox[a]).from # a]_vars

\* a broadcast has gone round the whole peer set of an actor: both other
\* actors have its Response, in the inbox or already in the history
C11_Witness ==
  \E a \in Agents, r \in Results :
    /\ pc[a] = "select"
    /\ \A b \in Agents \ {a} :
         \/ Response(a, r) \in Range(inbox[b])
         \/ ("From " \o a \o ": " \o r) \in Range(conversation_history[b])

\* --------------------------------------------------------------- claim C12

\* the broadcast of `a` stands at a peer that has terminated
AtClosedPeer(a) == pc[a] = "broadcast" /\ Closed(BroadcastTarget(a))

\* the failed send is ignored: in the step that `a` takes at a terminated
\* peer no inbox changes and nothing is counted as sent, the history of `a`
\* keeps its entries, and the broadcast goes on with the same message at
\* the next peer or, past the last one, returns to the select!
FailedSendIgnored(a) ==
  /\ inbox' = inbox
  /\ responses_sent' = responses_sent
  /\ conversation_history' = conversation_history
  /\ IF bcast_i[a] < Len(peer_channels[a])
       THEN /\ pc'[a] = "broadcast"
            /\ bcast_i'[a] = bcast_i[a] + 1
            /\ bcast_msg'[a] = bcast_msg[a]
       ELSE pc'[a] = "select"

\* the safety half of C12: failed sends are ignored, and a send to a
\* terminated peer never waits, however full that peer's inbox was left
C12_FailureIgnored ==
  /\ [][\A a \in Agents :
          (AtClosedPeer(a) /\ (pc'[a] # pc[a] \/ bcast_i'[a] # bcast_i[a])) =>
             FailedSendIgnored(a)]_vars
  /\ [](\A a \in Agents : AtClosedPeer(a) => ENABLED BroadcastSend(a))
  /\ [][\A a \in Agents : pc[a] = "broadcast" => pc'[a] # "terminated"]_vars

\* C12: delivery failure is ignored.  When an actor broadcasts while a peer
\* has terminated, the sends to terminated peers fail without effect and
\* never wait, the actor stays Running and keeps its history, and the
\* broadcast gets through: it eventually has sent to every peer still
\* Running and the actor is back at the select!.
C12_DeliveryFailureIgnored ==
  /\ C12_FailureIgnored
  /\ \A a \in Agents :
       (pc[a] = "broadcast" /\ \E b \in Agents : pc[b] = "terminated")
         ~> (pc[a] = "select")

\* --------------------------------------------------------------- claim C13

\* the actor is inside the handling of a dequeued message or of a tick, not
\* at the select!
Handling(a) ==
  pc[a] \in {"process_task", "broadcast", "process_trigger", "process_summary"}

\* C13: cooperative shutdown.  While an actor handles a message it takes
\* nothing from its inbox and does not terminate, whatever waits there; the
\* successful return of a Task's call appends the entry and starts the
\* broadcast of the Response, which returns to the select! only after the
\* send to the last peer; so an actor that terminates has no call
\* outstanding and no handling under way.
C13_CooperativeShutdown ==
  /\ [][\A a \in Agents :
          Handling(a) => (~Dequeues(a) /\ pc'[a] # "terminated")]_vars
  /\ [][\A a \in Agents :
          (pc[a] = "process_task" /\ pc'[a] # pc[a]
             /\ task_errors'[a] = task_errors[a]) =>
            \E r \in Results :
              /\ conversation_history'[a] =
                   Append(conversation_history[a],
                          "Task: " \o msg[a].text \o " | Result: " \o r)
              /\ pc'[a] = "broadcast"
              /\ bcast_i'[a] = 1
              /\ bcast_msg'[a] = Response(a, r)]_vars
  /\ [][\A a \in Agents :
          (pc[a] = "broadcast" /\ pc'[a] # "broadcast") =>
             (pc'[a] = "select" /\ bcast_i[a] = Len(peer_channels[a]))]_vars
  /\ [](\A a \in Agents :
          pc[a] = "terminated" =>
            (msg[a] = NoMsg /\ call[a] = NoCall /\ bcast_msg[a] = NoMsg))

\* with Shutdown waiting at the head of its inbox, an actor whose Task
\* succeeded has sent the Response to its first peer and stands at the second
C13_Witness ==
  \E a \in Agents :
    /\ pc[a] = "broadcast"
    /\ bcast_i[a] = 2
    /\ inbox[a] # <<>>
    /\ Head(inbox[a]) = Shutdown
    /\ \E t \in TaskTexts, r \in Results :
         ("Task: " \o t \o " | Result: " \o r) \in Range(conversation_history[a])

\* --------------------------------------------------------------- claim C14

\* C14: state-guard discipline.  In no reachable state does an actor hold
\* the guard of its AgentState while a call of process_autonomous_task is
\* outstanding or while it stands in a send of broadcast_to_peers.
C14_GuardDiscipline ==
  \A a \in Agents :
    (call[a] # NoCall \/ pc[a] = "broadcast") => state_guard[a] = "free"

\* --------------------------------------------------------------- claim C15

\* the entries the Response of a peer of `a` leaves in the history of `a`
PeerEntries(a) ==
  {"From " \o b \o ": " \o r : b \in Agents \ {a}, r \in Results}

\* this step is the successful return of the Task call of `a`
TaskSucceeds(a) ==
  /\ pc[a] = "process_task"
  /\ pc'[a] # pc[a]
  /\ task_errors'[a] = task_errors[a]

\* C15: the history is append-only and exactly accounted for.  A step
\* leaves an actor's history alone or appends one entry to it; it appends
\* exactly when it is the successful return of the actor's Task call (the
\* entry "Task: <text> | Result: <result>") or the dispatch of a Response
\* (the entry "From <from>: <content>"), so the length counts these two;
\* and whenever a Response of an actor is being broadcast, waits in an
\* inbox or is in a peer's history, the Task entry with that result is
\* already in the sender's history.
C15_HistoryAppendOnly ==
  /\ [][\A a \in Agents :
          LET h == conversation_history[a]
              isResp == Dequeues(a) /\ Head(inbox[a]).type = "Response"
          IN  /\ \/ conversation_history'[a] = h
                 \/ /\ Len(conversation_history'[a]) = Len(h) + 1
                    /\ SubSeq(conversation_history'[a], 1, Len(h)) = h
              /\ conversation_history'[a] # h <=> (TaskSucceeds(a) \/ isResp)
              /\ TaskSucceeds(a) =>
                   \E r \in Results :
                     conversation_history'[a] =
                       Append(h, "Task: " \o msg[a].text \o " | Result: " \o r)
              /\ isResp =>
                   conversation_history'[a] =
                     Append(h, "From " \o Head(inbox[a]).from \o ": "
                                 \o Head(inbox[a]).text)]_vars
  /\ [](\A a \in Agents :
          /\ Range(conversation_history[a]) \subseteq TaskEntries \cup PeerEntries(a)
          /\ \A r \in Results :
               (\/ bcast_msg[a] = Response(a, r)
                \/ \E b \in Agents :
                     \/ Response(a, r) \in Range(inbox[b])
                     \/ ("From " \o a \o ": " \o r) \in Range(conversation_history[b]))
                 => \E t \in TaskTexts :
                      ("Task: " \o t \o " | Result: " \o r)
                         \in Range(conversation_history[a]))

\* a history holds both kinds of entry: the actor has processed a Task
\* successfully and has dispatched a Response of a peer
C15_Witness ==
  \E a \in Agents :
    /\ Range(conversation_history[a]) \cap TaskEntries # {}
    /\ Range(conversation_history[a]) \cap PeerEntries(a) # {}
    /\ Len(conversation_history[a]) >= 2

\* ------------------------------------------------------ ConversationMemory
\* snippets/memory/src/main.rs: a second program, with a specification of
\* its own.  A ConversationMemory is built by with_max_messages, filled by
\* add_user_message / add_assistant_message, emptied by clear and compacted
\* by compact, whose one suspension point is the request to the model.

\* what the model can answer as the text of the first choice
SummaryTexts == {"s1"}

\* ConversationMemory::with_max_messages(max_messages); the actors of the
\* swarm example do not exist in this program
MemInit ==
  /\ messages = <<>>
  /\ max_messages \in 0..MaxMaxMessages
  /\ summary = None
  /\ mem_pc = "idle"
  /\ compact_result = "none"
  /\ capacity = 1
  /\ sup_pc = "register"
  /\ sup_i = 1
  /\ seeds_sent = 0
  /\ peer_channels = [a \in Agents |-> <<>>]
  /\ inbox = [a \in Agents |-> <<>>]
  /\ task_queue = [a \in Agents |-> <<>>]
  /\ conversation_history = [a \in Agents |-> <<>>]
  /\ state_guard = [a \in Agents |-> "free"]
  /\ pc = [a \in Agents |-> "unspawned"]
  /\ msg = [a \in Agents |-> NoMsg]
  /\ call = [a \in Agents |-> NoCall]
  /\ bcast_msg = [a \in Agents |-> NoMsg]
  /\ bcast_i = [a \in Agents |-> 0]
  /\ responses_sent = 0
  /\ task_errors = [a \in Agents |-> 0]

\* self.messages.push(message), for a message of either variant (User,
\* Assistant); the texts play no part in compact's control flow
push_message(kind) ==
  /\ mem_pc = "idle"
  /\ Len(messages) < MaxMessages
  /\ messages' = Append(messages, kind)
  /\ UNCHANGED max_messages /\ UNCHANGED summary /\ UNCHANGED mem_pc
  /\ UNCHANGED compact_result /\ UNCHANGED actor_vars

\* add_user_message: push Message::User {..}
add_user_message == push_message("User")

\* add_assistant_message: push Message::Assistant {..}
add_assistant_message == push_message("Assistant")

\* self.messages.clear()
clear ==
  /\ mem_pc = "idle"
  /\ messages' = <<>>
  /\ UNCHANGED max_messages /\ UNCHANGED summary /\ UNCHANGED mem_pc
  /\ UNCHANGED compact_result /\ UNCHANGED actor_vars

\* self.messages.len() <= self.max_messages
WithinLimit == Len(messages) <= max_messages

\* compact up to its suspension point: the early return Ok(()) when the
\* list is within the limit, else the request is sent
compact ==
  /\ mem_pc = "idle"
  /\ IF WithinLimit
       THEN compact_result' = "Ok" /\ mem_pc' = mem_pc
       ELSE compact_result' = "none" /\ mem_pc' = "request"
  /\ UNCHANGED messages /\ UNCHANGED max_messages /\ UNCHANGED summary
  /\ UNCHANGED actor_vars

\* model.completion_request(..).send().await? fails: compact returns Err
CompletionFails ==
  /\ mem_pc = "request"
  /\ mem_pc' = "idle"
  /\ compact_result' = "Err"
  /\ UNCHANGED messages /\ UNCHANGED max_messages /\ UNCHANGED summary
  /\ UNCHANGED actor_vars

\* the first choice of the response is Text { text }: the summary is set,
\* the messages are cleared and compact returns Ok(()); it is anything
\* else: the let-else returns Err
CompletionReturns(choice) ==
  /\ mem_pc = "request"
  /\ mem_pc' = "idle"
  /\ IF choice \in SummaryTexts
       THEN /\ summary' = Some(choice)
            /\ messages' = <<>>
            /\ compact_result' = "Ok"
       ELSE /\ compact_result' = "Err"
            /\ UNCHANGED messages /\ UNCHANGED summary
  /\ UNCHANGED max_messages /\ UNCHANGED actor_vars

\* the first choice of a response: a text, or content of another kind
Choices == SummaryTexts \cup {"non-text"}

MemNext ==
  \/ add_user_message
  \/ add_assistant_message
  \/ clear
  \/ compact
  \/ CompletionFails
  \/ \E choice \in Choices : CompletionReturns(choice)

MemSpec == MemInit /\ [][MemNext]_vars

\* --------------------------------------------------------------- claim C16

\* C16: whenever compact has returned Ok(()), the summary exists, for every
\* message count and every max_messages.
C16_CompactOkHasSummary ==
  compact_result = "Ok" => summary # None

\* --------------------------------------------------------------- claim C17

\* actor a is suspended in a broadcast send to the full inbox of b, whose
\* loop is running
SuspendedOn(a, b) ==
  /\ pc[a] = "broadcast"
  /\ BroadcastTarget(a) = b
  /\ Running(b)
  /\ Full(b)

\* C17: deadlock freedom of the mesh.  No reachable state has a cycle of
\* Running actors each suspended in a broadcast send to the full inbox of
\* the next one.
C17_DeadlockFreedom ==
  /\ ~ \E a, b \in Agents :
         a # b /\ SuspendedOn(a, b) /\ SuspendedOn(b, a)
  /\ ~ \E a, b, c \in Agents :
         /\ a # b /\ b # c /\ c # a
         /\ SuspendedOn(a, b) /\ SuspendedOn(b, c) /\ SuspendedOn(c, a)

=============================================================================
